---- MODULE Spec2Model ----
(***************************************************************************)
(* Model of the data-preparation cell of visualizing_covid_20210125.ipynb: *)
(* the pandas method chain that builds daily_df from the us-states.csv     *)
(* feed (read_csv, sort_values, rename, assign, query, reset_index).       *)
(*                                                                         *)
(* A DataFrame is a sequence of rows (records); the column "index" holds   *)
(* the row's index label.  A float64 cell is <<v>> for the number v and    *)
(* <<>> for NaN, so that a missing value is never mistaken for a number.   *)
(***************************************************************************)
EXTENDS Integers, Sequences, FiniteSets, TLC

VARIABLES csv, df, pc

vars == <<csv, df, pc>>

(***************************************************************************)
(* Bound of the model.                                                     *)
(***************************************************************************)
MaxRows == 2

\* the states of the feed, in the order in which their names sort
States == <<"CA", "NY">>

Date(y, m, d) == [y |-> y, m |-> m, d |-> d]

\* dates of the feed: the day before the window, its two ends, the day after
CsvDates ==
    {Date(2019, 12, 31), Date(2020, 1, 1), Date(2020, 12, 31), Date(2021, 1, 1)}

\* reported totals: two values let a series rise, stay level and fall
Counts == {0, 1}

CsvRows ==
    [state : {States[i] : i \in DOMAIN States}, date : CsvDates,
     cases : Counts, deaths : Counts]

RECURSIVE SeqsUpTo(_, _)
SeqsUpTo(S, n) ==
    IF n = 0 THEN {<< >>}
    ELSE LET shorter == SeqsUpTo(S, n - 1)
         IN  shorter \cup {Append(s, x) : s \in {t \in shorter : Len(t) = n - 1}, x \in S}

\* The two worked examples of the specification, in one file: CA reports
\* 100, 150, 140, 200 on four consecutive dates, NY reports 75 once.
ExampleRows ==
    << [state |-> "CA", date |-> Date(2020, 3, 1), cases |-> 100, deaths |-> 0],
       [state |-> "CA", date |-> Date(2020, 3, 2), cases |-> 150, deaths |-> 0],
       [state |-> "CA", date |-> Date(2020, 3, 3), cases |-> 140, deaths |-> 0],
       [state |-> "CA", date |-> Date(2020, 3, 4), cases |-> 200, deaths |-> 0],
       [state |-> "NY", date |-> Date(2020, 3, 1), cases |-> 75, deaths |-> 0] >>

\* A file whose CA series starts before the window and ends after it.
StraddleRows ==
    << [state |-> "CA", date |-> Date(2019, 12, 31), cases |-> 3, deaths |-> 1],
       [state |-> "CA", date |-> Date(2020, 1, 1), cases |-> 5, deaths |-> 1],
       [state |-> "CA", date |-> Date(2020, 12, 31), cases |-> 4, deaths |-> 2],
       [state |-> "CA", date |-> Date(2021, 1, 1), cases |-> 9, deaths |-> 2],
       [state |-> "NY", date |-> Date(2020, 1, 1), cases |-> 2, deaths |-> 0] >>

Permutations5 ==
    {p \in [1..5 -> 1..5] : \A i, j \in 1..5 : p[i] = p[j] => i = j}

\* the rows of a five-row file in any order
Shuffled(rows) == {[i \in 1..5 |-> rows[p[i]]] : p \in Permutations5}

ExampleFiles == Shuffled(ExampleRows)

StraddleFiles == Shuffled(StraddleRows)

CsvFiles == SeqsUpTo(CsvRows, MaxRows) \cup ExampleFiles \cup StraddleFiles

(***************************************************************************)
(* float64 cells                                                           *)
(***************************************************************************)
NaN == << >>
Num(v) == <<v>>
IsNaN(x) == x = NaN
Val(x) == x[1]

(***************************************************************************)
(* pd.read_csv(DATA_URL, parse_dates=['date'])                             *)
(***************************************************************************)
\* a date string "yyyy-mm-dd" parsed to a Timestamp at midnight; Timestamps
\* are represented by the order-preserving integer yyyymmdd
ParseDate(s) == s.y * 10000 + s.m * 100 + s.d

ReadCsv(file) ==
    [i \in 1..Len(file) |->
        [index |-> i - 1, state |-> file[i].state, date |-> ParseDate(file[i].date),
         cases |-> file[i].cases, deaths |-> file[i].deaths]]

(***************************************************************************)
(* .sort_values(['state', 'date'])                                         *)
(***************************************************************************)
StateRank(s) == CHOOSE i \in DOMAIN States : States[i] = s

\* r sorts strictly before q on the keys (state, date)
KeyLess(r, q) ==
    \/ StateRank(r.state) < StateRank(q.state)
    \/ r.state = q.state /\ r.date < q.date

\* insert r behind every row that does not sort after it (a stable sort)
RECURSIVE InsertRow(_, _)
InsertRow(r, sorted) ==
    IF sorted = << >> THEN <<r>>
    ELSE IF KeyLess(r, Head(sorted)) THEN <<r>> \o sorted
    ELSE <<Head(sorted)>> \o InsertRow(r, Tail(sorted))

RECURSIVE SortPrefix(_, _)
SortPrefix(frame, n) ==
    IF n = 0 THEN << >> ELSE InsertRow(frame[n], SortPrefix(frame, n - 1))

SortValues(frame) == SortPrefix(frame, Len(frame))

(***************************************************************************)
(* .rename(columns={'cases': 'cases_total', 'deaths': 'deaths_total'})     *)
(***************************************************************************)
Rename(frame) ==
    [i \in 1..Len(frame) |->
        [index |-> frame[i].index, state |-> frame[i].state, date |-> frame[i].date,
         cases_total |-> frame[i].cases, deaths_total |-> frame[i].deaths]]

(***************************************************************************)
(* df.groupby('state')[col].diff().clip(lower=0)                           *)
(***************************************************************************)
Labels(frame) == {frame[i].index : i \in DOMAIN frame}

PosOf(frame, label) == CHOOSE i \in DOMAIN frame : frame[i].index = label

\* positions of the rows of the same group that come before position i
Earlier(frame, i) == {j \in 1..(i - 1) : frame[j].state = frame[i].state}

Max(S) == CHOOSE x \in S : \A y \in S : y <= x

GroupDiff_NoGroup(frame, col) ==
    [l \in Labels(frame) |->
        LET i == PosOf(frame, l)
        IN  IF i = 1 THEN NaN ELSE Num(frame[i][col] - frame[i - 1][col])]

\* the Series, keyed by index label, of first differences within each group,
\* in the frame's row order; the first row of a group has no predecessor
GroupDiff(frame, col) ==
    [l \in Labels(frame) |->
        LET i == PosOf(frame, l)
        IN  IF Earlier(frame, i) = {} THEN NaN
            ELSE Num(frame[i][col] - frame[Max(Earlier(frame, i))][col])]

Clip(series, lower) ==
    [l \in DOMAIN series |->
        IF IsNaN(series[l]) THEN NaN
        ELSE IF Val(series[l]) < lower THEN Num(lower) ELSE series[l]]

\* the frame with the two Series added as columns, aligned on the index
WithNew(frame, casesNew, deathsNew) ==
    [i \in 1..Len(frame) |->
        [index |-> frame[i].index, state |-> frame[i].state, date |-> frame[i].date,
         cases_total |-> frame[i].cases_total, deaths_total |-> frame[i].deaths_total,
         cases_new |-> casesNew[frame[i].index],
         deaths_new |-> deathsNew[frame[i].index]]]

(***************************************************************************)
(* .query("'2020-01-01' <= date <= '2020-12-31'")                          *)
(***************************************************************************)
WindowStart == ParseDate(Date(2020, 1, 1))
WindowEnd == ParseDate(Date(2020, 12, 31))

InWindow(t) == WindowStart <= t /\ t <= WindowEnd

Query_OpenStart(frame) ==
    SelectSeq(frame, LAMBDA r : WindowStart < r.date /\ r.date <= WindowEnd)

Query_OpenEnd(frame) ==
    SelectSeq(frame, LAMBDA r : WindowStart <= r.date /\ r.date < WindowEnd)

Query(frame) == SelectSeq(frame, LAMBDA r : InWindow(r.date))

(***************************************************************************)
(* .assign(cases_new = ..., deaths_new = ...)                              *)
(***************************************************************************)
Assign_Overwrite(frame) ==
    [i \in 1..Len(frame) |->
        [index |-> frame[i].index, state |-> frame[i].state, date |-> frame[i].date,
         cases_total |-> 0, deaths_total |-> 0,
         cases_new |-> Clip(GroupDiff(frame, "cases_total"), 0)[frame[i].index],
         deaths_new |-> Clip(GroupDiff(frame, "deaths_total"), 0)[frame[i].index]]]

Assign_SameColumn(frame) ==
    WithNew(frame, Clip(GroupDiff(frame, "cases_total"), 0),
                   Clip(GroupDiff(frame, "cases_total"), 0))

Assign_QueryFirst(frame) ==
    WithNew(Query(frame), Clip(GroupDiff(Query(frame), "cases_total"), 0),
                          Clip(GroupDiff(Query(frame), "deaths_total"), 0))

Assign(frame) ==
    WithNew(frame, Clip(GroupDiff(frame, "cases_total"), 0),
                   Clip(GroupDiff(frame, "deaths_total"), 0))

(***************************************************************************)
(* .reset_index(drop=True)                                                 *)
(***************************************************************************)
ResetIndex(frame) ==
    [i \in 1..Len(frame) |-> [frame[i] EXCEPT !.index = i - 1]]

\* the whole chain that is bound to daily_df
Prepare(file) == ResetIndex(Query(Assign(Rename(SortValues(ReadCsv(file))))))

(***************************************************************************)
(* The cell, one step per call of the chain.                               *)
(***************************************************************************)
Init ==
    /\ csv \in CsvFiles
    /\ df = << >>
    /\ pc = "read_csv"

ReadCsvStep ==
    /\ pc = "read_csv"
    /\ df' = ReadCsv(csv)
    /\ pc' = "sort_values"
    /\ UNCHANGED csv

SortValuesStep ==
    /\ pc = "sort_values"
    /\ df' = SortValues(df)
    /\ pc' = "rename"
    /\ UNCHANGED csv

RenameStep ==
    /\ pc = "rename"
    /\ df' = Rename(df)
    /\ pc' = "assign"
    /\ UNCHANGED csv

AssignStep ==
    /\ pc = "assign"
    /\ df' = Assign(df)
    /\ pc' = "query"
    /\ UNCHANGED csv

QueryStep ==
    /\ pc = "query"
    /\ df' = Query(df)
    /\ pc' = "reset_index"
    /\ UNCHANGED csv

ResetIndexStep ==
    /\ pc = "reset_index"
    /\ df' = ResetIndex(df)
    /\ pc' = "done"
    /\ UNCHANGED csv

Next ==
    \/ ReadCsvStep
    \/ SortValuesStep
    \/ RenameStep
    \/ AssignStep
    \/ QueryStep
    \/ ResetIndexStep

Spec == Init /\ [][Next]_vars

(***************************************************************************)
(* Vocabulary of the properties.                                           *)
(***************************************************************************)
\* the observations as read, before any reshaping
Input == ReadCsv(csv)

Entities == {States[i] : i \in DOMAIN States}

Done == pc = "done"

\* the frame carries the derived columns but has not been filtered yet
Derived == pc = "query"

MaxOf(a, b) == IF a < b THEN b ELSE a

\* the multiset of F(row) over the rows of a frame, as a function to counts
BagOf(frame, F(_)) ==
    [k \in {F(frame[i]) : i \in DOMAIN frame} |->
        Cardinality({i \in DOMAIN frame : F(frame[i]) = k})]

KeyOf(r) == <<r.state, r.date>>

RawOf(r) == <<r.state, r.date, r.cases, r.deaths>>

TotalsOf(r) == <<r.state, r.date, r.cases_total, r.deaths_total>>

InputInWindow == SelectSeq(Input, LAMBDA r : InWindow(r.date))

\* the input positions of entity e
RowsOf(e) == {k \in DOMAIN Input : Input[k].state = e}

NoDuplicateDates(e) ==
    \A k, l \in RowsOf(e) : Input[k].date = Input[l].date => k = l

\* the positions of entity e in the current frame
DfRowsOf(e) == {i \in DOMAIN df : df[i].state = e}

\* row i of the frame is the observation of its entity with the earliest date
IsEarliest(i) == \A k \in RowsOf(df[i].state) : Input[k].date >= df[i].date

\* the input position of the observation before date t, for an entity
\* without duplicate dates
Predecessor(e, t) ==
    CHOOSE k \in RowsOf(e) :
        /\ Input[k].date < t
        /\ \A l \in RowsOf(e) : Input[l].date < t => Input[l].date <= Input[k].date

Floor0(x) == Num(MaxOf(0, x))

\* C1: every cases_new and deaths_new of daily_df is a non-negative number
NonNegativeIncrements ==
    Done => \A i \in DOMAIN df :
        /\ ~IsNaN(df[i].cases_new) /\ Val(df[i].cases_new) >= 0
        /\ ~IsNaN(df[i].deaths_new) /\ Val(df[i].deaths_new) >= 0

\* no derived value is a negative number (a missing value is not negative)
NoNegativeIncrement ==
    pc \in {"query", "reset_index", "done"} => \A i \in DOMAIN df :
        /\ IsNaN(df[i].cases_new) \/ Val(df[i].cases_new) >= 0
        /\ IsNaN(df[i].deaths_new) \/ Val(df[i].deaths_new) >= 0

\* C2: the row with the earliest date of an entity's series has an
\* incremental count equal to its own cumulative count; NY with the single
\* observation 75 yields 75
FirstEqualsCumulative ==
    Done => \A i \in DOMAIN df : IsEarliest(i) =>
        /\ df[i].cases_new = Num(df[i].cases_total)
        /\ df[i].deaths_new = Num(df[i].deaths_total)

\* for an entity without duplicate dates, whatever the order of the input
\* rows, every observation but the earliest has the difference to the
\* observation of the next-earlier date, floored at zero
ClippedDifference ==
    pc \in {"query", "reset_index", "done"} =>
        \A i \in DOMAIN df : (NoDuplicateDates(df[i].state) /\ ~IsEarliest(i)) =>
            LET prev == Input[Predecessor(df[i].state, df[i].date)]
            IN  /\ df[i].cases_new = Floor0(df[i].cases_total - prev.cases)
                /\ df[i].deaths_new = Floor0(df[i].deaths_total - prev.deaths)

\* the cases_new of the rows of entity e, in the order of the frame
NewCasesOf(e) ==
    LET rows == SelectSeq(df, LAMBDA r : r.state = e)
    IN  [i \in 1..Len(rows) |-> rows[i].cases_new]

\* C3: every observation but the earliest of an entity without duplicate
\* dates has max(0, difference to the next-earlier observation), for any
\* order of the input rows, and CA reporting 100, 150, 140, 200 yields
\* 100, 50, 0, 60
DifferenceAndExample ==
    /\ ClippedDifference
    /\ (Done /\ csv \in ExampleFiles) =>
           NewCasesOf("CA") = <<Num(100), Num(50), Num(0), Num(60)>>

\* Series.sum() of the cases_new (deaths_new) of entity e up to date t:
\* missing values are skipped
RECURSIVE SumNew(_, _)
SumNew(col, rows) ==
    IF rows = {} THEN 0
    ELSE LET i == CHOOSE j \in rows : TRUE
         IN  (IF IsNaN(df[i][col]) THEN 0 ELSE Val(df[i][col]))
                 + SumNew(col, rows \ {i})

UpTo(i) == {j \in DfRowsOf(df[i].state) : df[j].date <= df[i].date}

NonDecreasing(e, col) ==
    \A i, j \in DfRowsOf(e) : df[i].date <= df[j].date => df[i][col] <= df[j][col]

\* C4: for an entity whose cumulative counts never decrease, the derived
\* increments over every prefix of its dates sum to the cumulative count at
\* the last date of the prefix
PrefixSums ==
    Derived => \A i \in DOMAIN df :
        /\ (NoDuplicateDates(df[i].state) /\ NonDecreasing(df[i].state, "cases_total"))
               => SumNew("cases_new", UpTo(i)) = df[i].cases_total
        /\ (NoDuplicateDates(df[i].state) /\ NonDecreasing(df[i].state, "deaths_total"))
               => SumNew("deaths_new", UpTo(i)) = df[i].deaths_total

\* the dates, cumulative and incremental counts of entity e, in frame order
SeriesOf(frame, e) ==
    LET rows == SelectSeq(frame, LAMBDA r : r.state = e)
    IN  [i \in 1..Len(rows) |->
            <<rows[i].date, rows[i].cases_total, rows[i].cases_new,
              rows[i].deaths_total, rows[i].deaths_new>>]

\* C5: the derived series of an entity is the one obtained from its own
\* observations alone, whatever rows of other entities the input holds and
\* however they are interleaved with its own
EntityIndependence ==
    Done => \A e \in Entities :
        SeriesOf(df, e) = SeriesOf(Prepare(SelectSeq(csv, LAMBDA r : r.state = e)), e)

EntityIndependenceWitness ==
    /\ Done
    /\ \E i, j, k \in DOMAIN csv :
          i < j /\ j < k /\ csv[i].state = csv[k].state /\ csv[j].state # csv[i].state
    /\ \A e \in Entities : DfRowsOf(e) # {}
    /\ \E i \in DOMAIN df : ~IsNaN(df[i].cases_new)

\* C6 as stated: daily_df has exactly the (entity, date) keys of the input,
\* with their multiplicities
OneRowPerObservation ==
    Done => BagOf(df, KeyOf) = BagOf(Input, KeyOf)

\* C6, amended: the derived frame has one row per input observation, and
\* daily_df has exactly the keys of the observations dated within 2020
OneRowPerWindowObservation ==
    /\ Derived => BagOf(df, KeyOf) = BagOf(Input, KeyOf)
    /\ Done => BagOf(df, KeyOf) = BagOf(InputInWindow, KeyOf)

OneRowPerWindowObservationWitness ==
    Done /\ Len(df) > 0 /\ Len(df) < Len(csv)

\* C7: every row of daily_df is dated from 2020-01-01 to 2020-12-31, both
\* included, and every input row dated in that range is in daily_df
WindowExact ==
    Done =>
        /\ \A i \in DOMAIN df : 20200101 <= df[i].date /\ df[i].date <= 20201231
        /\ BagOf(df, TotalsOf) = BagOf(InputInWindow, RawOf)

WindowExactWitness ==
    /\ Done
    /\ \E i, j \in DOMAIN df : df[i].date = 20200101 /\ df[j].date = 20201231
    /\ \E k, l \in DOMAIN Input : Input[k].date < 20200101 /\ Input[l].date > 20201231

AllColumns ==
    {"index", "state", "date", "cases_total", "deaths_total", "cases_new", "deaths_new"}

\* C8: every output row carries the entity, date and cumulative counts of
\* its input row unchanged, next to the two incremental columns
ColumnsPreserved ==
    /\ pc \in {"query", "reset_index"} => \A i \in DOMAIN df :
          /\ DOMAIN df[i] = AllColumns
          /\ df[i].index + 1 \in DOMAIN Input
          /\ TotalsOf(df[i]) = RawOf(Input[df[i].index + 1])
    /\ Derived => Len(df) = Len(Input)
    /\ Done =>
          /\ \A i \in DOMAIN df : DOMAIN df[i] = AllColumns
          /\ BagOf(df, TotalsOf) = BagOf(InputInWindow, RawOf)

ColumnsPreservedWitness ==
    /\ Done
    /\ \E i \in DOMAIN df :
          /\ df[i].cases_total > 0
          /\ ~IsNaN(df[i].cases_new)
          /\ Val(df[i].cases_new) # df[i].cases_total

WithoutDeaths(file) == [i \in 1..Len(file) |-> [file[i] EXCEPT !.deaths = 0]]

WithoutCases(file) == [i \in 1..Len(file) |-> [file[i] EXCEPT !.cases = 0]]

\* C9: cases_new is, row for row, what the same entities, dates and cases
\* yield with any deaths, and deaths_new what the same entities, dates and
\* deaths yield with any cases
MetricIndependence ==
    Done =>
        LET a == Prepare(WithoutDeaths(csv))
            b == Prepare(WithoutCases(csv))
        IN  /\ Len(a) = Len(df) /\ Len(b) = Len(df)
            /\ \A i \in DOMAIN df :
                  /\ df[i].cases_new = a[i].cases_new
                  /\ df[i].deaths_new = b[i].deaths_new
                  /\ KeyOf(df[i]) = KeyOf(a[i]) /\ KeyOf(df[i]) = KeyOf(b[i])

MetricIndependenceWitness ==
    /\ Done
    /\ \E i \in DOMAIN df :
          /\ ~IsNaN(df[i].cases_new) /\ ~IsNaN(df[i].deaths_new)
          /\ df[i].cases_new # df[i].deaths_new

\* the input position of the last observation of e dated before the window:
\* the latest date, and among equal dates the last row of the file
LastBeforeWindow(e) ==
    CHOOSE k \in RowsOf(e) :
        /\ Input[k].date < WindowStart
        /\ \A l \in RowsOf(e) : Input[l].date < WindowStart =>
              \/ Input[l].date < Input[k].date
              \/ Input[l].date = Input[k].date /\ l <= k

HasRowBeforeWindow(e) == \E k \in RowsOf(e) : Input[k].date < WindowStart

\* C10: the differences are taken before the rows are filtered: the first
\* row kept for an entity with an observation before 2020-01-01 has the
\* floored difference to the last such observation, and the rows dated
\* after 2020-12-31 have no effect on the rows kept
DiffBeforeFilter ==
    Done =>
        /\ \A e \in Entities : (HasRowBeforeWindow(e) /\ DfRowsOf(e) # {}) =>
              LET i == CHOOSE j \in DfRowsOf(e) : \A l \in DfRowsOf(e) : j <= l
                  prev == Input[LastBeforeWindow(e)]
              IN  /\ df[i].cases_new = Floor0(df[i].cases_total - prev.cases)
                  /\ df[i].deaths_new = Floor0(df[i].deaths_total - prev.deaths)
        /\ df = Prepare(SelectSeq(csv, LAMBDA r : ParseDate(r.date) <= 20201231))

DiffBeforeFilterWitness ==
    /\ Done
    /\ \E e \in Entities :
          /\ HasRowBeforeWindow(e)
          /\ \E i \in DfRowsOf(e) :
                ~IsNaN(df[i].cases_new) /\ Val(df[i].cases_new) # df[i].cases_total
    /\ \E k \in DOMAIN Input : Input[k].date > WindowEnd

====
